---- MODULE Spec2Model ----
(***************************************************************************)
(* Renko brick synthesis (technical_analysis/models/renko.py) as a state   *)
(* machine: a Renko object is constructed (mutually exclusive brick-size   *)
(* arguments, instrument validation, brick-size resolution) and get_renko  *)
(* is then run over the candle sequence served by the candle source.       *)
(*                                                                         *)
(* Prices are integers; Python's float `//` is modelled by FloorDiv and    *)
(* int(x / y) by TruncDiv.  An optional value (None or a value) is a       *)
(* sequence of length 0 or 1.                                              *)
(***************************************************************************)
EXTENDS Integers, Sequences, FiniteSets, TLC

\* ---------------------------------------------------------------- bounds
MaxLen == 3        \* longest candle sequence the candle source serves
MaxPrice == 4      \* candle closes range over 0..MaxPrice
MaxWick == 4       \* largest distance of a candle's low / high from its close
MaxBrick == 2      \* largest fixed brick size passed to the constructor
MaxPeriods == 2    \* largest ATR period count passed to the constructor
MaxRuns == 2       \* get_renko calls made on one Renko object
MaxDates == 4      \* dates of the instrument universe
MaxSteps == 3      \* largest num_periods passed to step_up / step_back
MaxClock == 2      \* days the clock of the response cache runs over
MaxThreshold == 1  \* largest cache threshold period set, in days
MaxSymbols == 2    \* most instrument symbols aggregated in one call

None == <<>>
Some(x) == <<x>>

Prices == 0..MaxPrice
Wicks == {0, MaxWick}
BrickSizes == (0..MaxBrick) \cup {-MaxBrick}
Periods == 1..MaxPeriods

VARIABLES
    source,        \* what the candle source serves: None, or Some(candle sequence)
    args,          \* the brick-size arguments the constructor was called with
    pc,            \* position of the program
    err,           \* the exception that ended the program, "" if none
    brick_size,    \* Renko.__brick_size
    fetches,       \* calls made to the candle source so far
    runs,          \* get_renko calls started so far
    seed_close,    \* local `close` of __get_initial_uptrend_renko_brick
    seed_low,      \* local `low` of __get_initial_uptrend_renko_brick
    candles,       \* the dataframe the loop of get_renko iterates over
    idx,           \* candles of it already processed
    renko_df,      \* local `renko_df` of get_renko
    results,       \* the dataframes returned by get_renko, in call order
    atr_candles,   \* candles of the reference span the ATR was computed over
    \* ---- Portfolio (models/portfolio.py) and its optimizer
    history,       \* Portfolio.__history: one row per date, in order of insertion
    end_date,      \* Portfolio.__end_date
    config_end_date,        \* the optimizer's config.end_date
    current_holdings_kpis,  \* Portfolio.__current_holdings_kpis
    pf_call,       \* the last Portfolio method called, with its argument
    pf_err,        \* the exception that ended the last Portfolio call, "" if none
    \* ---- ResponseCacher and the aggregation of API responses
    cache_files,   \* response file path -> None or Some([data, mtime])
    clock,         \* time.time(), in days
    cache_threshold_period,  \* ResponseCacher.__CACHE_THRESHOLD_PERIOD, in days
    stored,        \* (api, instrument) -> the last cache_response_data for
                   \* that pair: None or Some([data, at])
    cache_call,    \* the retrieve_from_cache call just made, with its result
    agg_call,      \* the aggregation call just made, with its outcome
    response_cache_dir,  \* ResponseCacher.__RESPONSE_CACHE_DIR
    fs,            \* what each directory path is on disk
    dir_call       \* the last set_response_cache_dir call, with its outcome

portfolioVars == <<history, end_date, config_end_date, current_holdings_kpis,
                   pf_call, pf_err>>

\* The response cache directory setting and the disk it refers to
dirVars == <<response_cache_dir, fs, dir_call>>

cacheVars == <<cache_files, clock, cache_threshold_period, stored, cache_call,
               agg_call, dirVars>>

\* The variables of the components other than Renko
nonRenkoVars == <<portfolioVars, cacheVars>>

renkoVars == <<source, args, pc, err, brick_size, fetches, runs, seed_close,
               seed_low, candles, idx, renko_df, results, atr_candles>>

vars == <<renkoVars, portfolioVars, cacheVars>>

\* ------------------------------------------------------- Python arithmetic
Abs(x) == IF x < 0 THEN -x ELSE x
Min(x, y) == IF x <= y THEN x ELSE y
Max(x, y) == IF x >= y THEN x ELSE y

\* x // y of Python (floor of the quotient), y # 0
FloorDiv(x, y) ==
    IF y > 0 THEN x \div y
    ELSE (-x) \div (-y)

\* int(x / y) of Python (quotient truncated toward zero), y # 0
TruncDiv(x, y) ==
    IF (x >= 0) = (y > 0) THEN Abs(x) \div Abs(y)
    ELSE -(Abs(x) \div Abs(y))

Last(s) == s[Len(s)]
IsPrefix(s, t) == Len(s) <= Len(t) /\ SubSeq(t, 1, Len(s)) = s

\* ------------------------------------------------------------ candle source
\* A dataframe of the candle source: ascending by date, one row per date.
\* The Renko engine reads datetime, close, high and low of a row only.
CandleDf(closes, lowWick, highWick) ==
    [i \in 1..Len(closes) |->
        [datetime |-> i,
         close    |-> closes[i],
         high     |-> closes[i] + highWick,
         low      |-> closes[i] - lowWick]]

CloseSeqs == UNION {[1..n -> Prices] : n \in 0..MaxLen}

\* Renko.source_candle_df: one call to the candle source
SourceCandleDf == source

\* ------------------------------------------------------------ brick emission
Brick(date, open, high, low, close, uptrend) ==
    [datetime |-> date, open |-> open, high |-> high, low |-> low,
     close |-> close, uptrend |-> uptrend]

\* ContinueUptrend taking the candle's low unclamped
RECURSIVE ContinueUptrend_NoClamp(_, _, _, _, _)
ContinueUptrend_NoClamp(curr_date, curr_low, prev_close, prev_open, num_bricks) ==
    IF num_bricks <= 0 THEN <<>>
    ELSE LET close == prev_close + brick_size
         IN  <<Brick(curr_date, prev_close, close, curr_low, close, TRUE)>>
             \o ContinueUptrend_NoClamp(curr_date, curr_low,
                    prev_close + brick_size, prev_open + brick_size,
                    num_bricks - 1)

\* ContinueUptrend clamping every brick's low against the first brick's bound
RECURSIVE ContinueUptrend_StaleOpen(_, _, _, _, _)
ContinueUptrend_StaleOpen(curr_date, curr_low, prev_close, prev_open, num_bricks) ==
    IF num_bricks <= 0 THEN <<>>
    ELSE LET close == prev_close + brick_size
             low   == Min(Max(curr_low, prev_open - brick_size), prev_close)
         IN  <<Brick(curr_date, prev_close, close, low, close, TRUE)>>
             \o ContinueUptrend_StaleOpen(curr_date, curr_low,
                    prev_close + brick_size, prev_open, num_bricks - 1)

RECURSIVE ContinueUptrend(_, _, _, _, _)
ContinueUptrend(curr_date, curr_low, prev_close, prev_open, num_bricks) ==
    IF num_bricks <= 0 THEN <<>>
    ELSE LET close == prev_close + brick_size
             low   == Min(Max(curr_low, prev_open - brick_size), prev_close)
         IN  <<Brick(curr_date, prev_close, close, low, close, TRUE)>>
             \o ContinueUptrend(curr_date, curr_low, prev_close + brick_size,
                                prev_open + brick_size, num_bricks - 1)

\* ReverseToDowntrend closing one brick below the previous close
RECURSIVE ReverseToDowntrend_CloseFromClose(_, _, _, _, _)
ReverseToDowntrend_CloseFromClose(curr_date, curr_high, prev_close, prev_open, num_bricks) ==
    IF Abs(num_bricks) <= 0 THEN <<>>
    ELSE LET high  == Max(Min(curr_high, prev_close + brick_size), prev_open)
             close == prev_close - brick_size
         IN  <<Brick(curr_date, prev_open, high, close, close, FALSE)>>
             \o ReverseToDowntrend_CloseFromClose(curr_date, curr_high,
                    prev_close - brick_size, prev_open - brick_size,
                    Abs(num_bricks) - 1)

RECURSIVE ReverseToDowntrend(_, _, _, _, _)
ReverseToDowntrend(curr_date, curr_high, prev_close, prev_open, num_bricks) ==
    IF Abs(num_bricks) <= 0 THEN <<>>
    ELSE LET high  == Max(Min(curr_high, prev_close + brick_size), prev_open)
             close == prev_open - brick_size
         IN  <<Brick(curr_date, prev_open, high, close, close, FALSE)>>
             \o ReverseToDowntrend(curr_date, curr_high, prev_close - brick_size,
                                   prev_open - brick_size, Abs(num_bricks) - 1)

\* ContinueDowntrend closing one brick below the previous open
RECURSIVE ContinueDowntrend_CloseFromOpen(_, _, _, _, _)
ContinueDowntrend_CloseFromOpen(curr_date, curr_high, prev_close, prev_open, num_bricks) ==
    IF Abs(num_bricks) <= 0 THEN <<>>
    ELSE LET high  == Max(Min(curr_high, prev_open + brick_size), prev_close)
             close == prev_open - brick_size
         IN  <<Brick(curr_date, prev_close, high, close, close, FALSE)>>
             \o ContinueDowntrend_CloseFromOpen(curr_date, curr_high,
                    prev_close - brick_size, prev_open - brick_size,
                    Abs(num_bricks) - 1)

\* ContinueDowntrend taking the candle's high unclamped from above
RECURSIVE ContinueDowntrend_HighUnbounded(_, _, _, _, _)
ContinueDowntrend_HighUnbounded(curr_date, curr_high, prev_close, prev_open, num_bricks) ==
    IF Abs(num_bricks) <= 0 THEN <<>>
    ELSE LET high  == Max(curr_high, prev_close)
             close == prev_close - brick_size
         IN  <<Brick(curr_date, prev_close, high, close, close, FALSE)>>
             \o ContinueDowntrend_HighUnbounded(curr_date, curr_high,
                    prev_close - brick_size, prev_open - brick_size,
                    Abs(num_bricks) - 1)

\* ContinueDowntrend stamping the bricks of a batch with an advancing clock
RECURSIVE ContinueDowntrend_AdvancingClock(_, _, _, _, _)
ContinueDowntrend_AdvancingClock(curr_date, curr_high, prev_close, prev_open, num_bricks) ==
    IF Abs(num_bricks) <= 0 THEN <<>>
    ELSE LET high  == Max(Min(curr_high, prev_open + brick_size), prev_close)
             close == prev_close - brick_size
         IN  <<Brick(curr_date, prev_close, high, close, close, FALSE)>>
             \o ContinueDowntrend_AdvancingClock(curr_date + 1, curr_high,
                    prev_close - brick_size, prev_open - brick_size,
                    Abs(num_bricks) - 1)

RECURSIVE ContinueDowntrend(_, _, _, _, _)
ContinueDowntrend(curr_date, curr_high, prev_close, prev_open, num_bricks) ==
    IF Abs(num_bricks) <= 0 THEN <<>>
    ELSE LET high  == Max(Min(curr_high, prev_open + brick_size), prev_close)
             close == prev_close - brick_size
         IN  <<Brick(curr_date, prev_close, high, close, close, FALSE)>>
             \o ContinueDowntrend(curr_date, curr_high, prev_close - brick_size,
                                  prev_open - brick_size, Abs(num_bricks) - 1)

\* ReverseToUptrend opening at the previous close
RECURSIVE ReverseToUptrend_OpenFromClose(_, _, _, _, _)
ReverseToUptrend_OpenFromClose(curr_date, curr_low, prev_close, prev_open, num_bricks) ==
    IF num_bricks <= 0 THEN <<>>
    ELSE LET close == prev_close + brick_size
             low   == Min(Max(curr_low, prev_close - brick_size), prev_open)
         IN  <<Brick(curr_date, prev_close, close, low, close, TRUE)>>
             \o ReverseToUptrend_OpenFromClose(curr_date, curr_low,
                    prev_close + brick_size, prev_open + brick_size,
                    num_bricks - 1)

\* ReverseToUptrend clamping the low one brick size below the previous open
RECURSIVE ReverseToUptrend_ClampFromOpen(_, _, _, _, _)
ReverseToUptrend_ClampFromOpen(curr_date, curr_low, prev_close, prev_open, num_bricks) ==
    IF num_bricks <= 0 THEN <<>>
    ELSE LET close == prev_open + brick_size
             low   == Min(Max(curr_low, prev_open - brick_size), prev_open)
         IN  <<Brick(curr_date, prev_open, close, low, close, TRUE)>>
             \o ReverseToUptrend_ClampFromOpen(curr_date, curr_low,
                    prev_close + brick_size, prev_open + brick_size,
                    num_bricks - 1)

RECURSIVE ReverseToUptrend(_, _, _, _, _)
ReverseToUptrend(curr_date, curr_low, prev_close, prev_open, num_bricks) ==
    IF num_bricks <= 0 THEN <<>>
    ELSE LET close == prev_open + brick_size
             low   == Min(Max(curr_low, prev_close - brick_size), prev_open)
         IN  <<Brick(curr_date, prev_open, close, low, close, TRUE)>>
             \o ReverseToUptrend(curr_date, curr_low, prev_close + brick_size,
                                 prev_open + brick_size, num_bricks - 1)

\* The signed brick count by floor division, (curr - prev) // brick_size
CalculateSignedNumOfBricks_Floor(curr_close, prev_close) ==
    FloorDiv(curr_close - prev_close, brick_size)

\* lines 151-156: int((curr_close - prev_close) / self.__brick_size)
CalculateSignedNumOfBricks(curr_close, prev_close) ==
    TruncDiv(curr_close - prev_close, brick_size)

\* GenerateNextBricks reversing on a single brick-equivalent against the trend
GenerateNextBricks_SingleBrickReversal(curr_date, curr_high, curr_low, prev_close, prev_open, uptrend, signed_num_bricks) ==
    IF uptrend /\ signed_num_bricks >= 1
    THEN ContinueUptrend(curr_date, curr_low, prev_close, prev_open,
                         Abs(signed_num_bricks))
    ELSE IF uptrend /\ signed_num_bricks <= -1
    THEN ReverseToDowntrend(curr_date, curr_high, prev_close, prev_open,
                            Abs(signed_num_bricks))
    ELSE IF ~uptrend /\ signed_num_bricks <= -1
    THEN ContinueDowntrend(curr_date, curr_high, prev_close, prev_open,
                           Abs(signed_num_bricks))
    ELSE IF ~uptrend /\ signed_num_bricks >= 1
    THEN ReverseToUptrend(curr_date, curr_low, prev_close, prev_open,
                          Abs(signed_num_bricks))
    ELSE <<>>

\* GenerateNextBricks emitting as many reversal bricks as the signed count
GenerateNextBricks_ReversalCountsAll(curr_date, curr_high, curr_low, prev_close, prev_open, uptrend, signed_num_bricks) ==
    IF uptrend /\ signed_num_bricks >= 1
    THEN ContinueUptrend(curr_date, curr_low, prev_close, prev_open,
                         Abs(signed_num_bricks))
    ELSE IF uptrend /\ signed_num_bricks <= -2
    THEN ReverseToDowntrend(curr_date, curr_high, prev_close, prev_open,
                            Abs(signed_num_bricks))
    ELSE IF ~uptrend /\ signed_num_bricks <= -1
    THEN ContinueDowntrend(curr_date, curr_high, prev_close, prev_open,
                           Abs(signed_num_bricks))
    ELSE IF ~uptrend /\ signed_num_bricks >= 2
    THEN ReverseToUptrend(curr_date, curr_low, prev_close, prev_open,
                          Abs(signed_num_bricks))
    ELSE <<>>

GenerateNextBricks(curr_date, curr_high, curr_low, prev_close, prev_open, uptrend, signed_num_bricks) ==
    IF uptrend /\ signed_num_bricks >= 1
    THEN ContinueUptrend(curr_date, curr_low, prev_close, prev_open,
                         Abs(signed_num_bricks))
    ELSE IF uptrend /\ signed_num_bricks <= -2
    THEN ReverseToDowntrend(curr_date, curr_high, prev_close, prev_open,
                            Abs(signed_num_bricks + 1))
    ELSE IF ~uptrend /\ signed_num_bricks <= -1
    THEN ContinueDowntrend(curr_date, curr_high, prev_close, prev_open,
                           Abs(signed_num_bricks))
    ELSE IF ~uptrend /\ signed_num_bricks >= 2
    THEN ReverseToUptrend(curr_date, curr_low, prev_close, prev_open,
                          Abs(signed_num_bricks - 1))
    ELSE <<>>

\* NextBricks counting the bricks from the previous brick's open
NextBricks_CountFromOpen(df, candle) ==
    LET prev_renko_brick == Last(df)
        signed_num_of_bricks ==
            CalculateSignedNumOfBricks(candle.close, prev_renko_brick.open)
    IN  GenerateNextBricks(candle.datetime, candle.high, candle.low,
                           prev_renko_brick.close, prev_renko_brick.open,
                           prev_renko_brick.uptrend, signed_num_of_bricks)

\* The bricks one iteration of the loop of get_renko appends for `candle`
\* when the dataframe built so far is df.
NextBricks(df, candle) ==
    LET prev_renko_brick == Last(df)
        signed_num_of_bricks ==
            CalculateSignedNumOfBricks(candle.close, prev_renko_brick.close)
    IN  GenerateNextBricks(candle.datetime, candle.high, candle.low,
                           prev_renko_brick.close, prev_renko_brick.open,
                           prev_renko_brick.uptrend, signed_num_of_bricks)

\* renko_df.loc[0, :] = brick
SetRow0(df, brick) ==
    IF Len(df) = 0 THEN <<brick>> ELSE [df EXCEPT ![1] = brick]

\* ------------------------------------------------------------------- Init
\* No Portfolio has been constructed
PortfolioUnused ==
    /\ history = <<>>
    /\ end_date = 0
    /\ config_end_date = 0
    /\ current_holdings_kpis = None
    /\ pf_call = None
    /\ pf_err = ""

\* The response cache directory is empty and no request has been made
CacheUnused ==
    /\ cache_files = <<>>
    /\ clock = 0
    /\ cache_threshold_period = 0
    /\ stored = <<>>
    /\ cache_call = None
    /\ agg_call = None
    /\ response_cache_dir = ""
    /\ fs = <<>>
    /\ dir_call = None

Init ==
    /\ source \in {None} \cup
                  {Some(CandleDf(cs, lw, hw)) :
                      cs \in CloseSeqs, lw \in Wicks, hw \in Wicks}
    /\ args = [brick_size |-> None, brick_size_from_atr_of |-> None]
    /\ pc = "new"
    /\ err = ""
    /\ brick_size = 0
    /\ fetches = 0
    /\ runs = 0
    /\ seed_close = 0
    /\ seed_low = 0
    /\ candles = <<>>
    /\ idx = 0
    /\ renko_df = <<>>
    /\ results = <<>>
    /\ atr_candles = 0
    /\ PortfolioUnused
    /\ CacheUnused

Raise(e) ==
    /\ pc' = "error"
    /\ err' = e

\* -------------------------------------------------------------- construction
\* The arguments of `exclusive_args` that are not None
Provided(a) ==
    (IF a.brick_size_from_atr_of # None THEN <<"brick_size_from_atr_of">> ELSE <<>>)
    \o (IF a.brick_size # None THEN <<"brick_size">> ELSE <<>>)

\* The check as the decorator's docstring words it: only more than one raises
MutuallyExclusiveOk_AtMostOne(a) == Len(Provided(a)) <= 1

MutuallyExclusiveOk(a) == Len(Provided(a)) = 1

\* The last ATR value counting the first candle's true range as a value
LastAtrDefined_FirstTrueRangeCounts(num_candles, window) ==
    num_candles >= window

\* IndicatorCalculator.atr: TR is NaN on the first candle (close.shift(1), max
\* with skipna=False), and ewm(span=window, min_periods=window) yields a value
\* only from the window-th non-NaN TR on: is atr.iloc[-1] a number?
LastAtrDefined(num_candles, window) ==
    num_candles - 1 >= window

\* Renko(...): the mutually_exclusive_args wrapper, then __init__.
\* The ATR series of the reference span is the ATR provider's: its last value
\* is undefined (NaN) unless the true-range series, one shorter than the
\* reference candle series, holds at least `periods` values; round(NaN) raises.
Construct ==
    /\ pc = "new"
    /\ \E bs \in {None} \cup {Some(b) : b \in BrickSizes},
          atr \in {None} \cup {Some(p) : p \in Periods} :
        LET a == [brick_size |-> bs, brick_size_from_atr_of |-> atr] IN
        /\ args' = a
        /\ IF ~MutuallyExclusiveOk(a)
           THEN /\ Raise("ValueError: exactly one must be provided")
                /\ UNCHANGED <<brick_size, fetches, atr_candles>>
           ELSE IF SourceCandleDf = None
           THEN /\ Raise("ValueError: instrument is invalid")
                /\ fetches' = fetches + 1
                /\ UNCHANGED <<brick_size, atr_candles>>
           ELSE IF bs # None
           THEN /\ brick_size' = bs[1]
                /\ fetches' = fetches + 1
                /\ pc' = "ready"
                /\ UNCHANGED <<err, atr_candles>>
           ELSE IF atr = None
           THEN /\ Raise("TypeError: argument after * must be an iterable")
                /\ fetches' = fetches + 1
                /\ UNCHANGED <<brick_size, atr_candles>>
           ELSE \E ref_len \in 0..(MaxPeriods + 1), atr_round \in 0..1 :
                /\ fetches' = fetches + 2
                /\ atr_candles' = ref_len
                /\ IF ref_len = 0
                   THEN Raise("IndexError") /\ UNCHANGED brick_size
                   ELSE IF ~LastAtrDefined(ref_len, atr[1])
                   THEN Raise("ValueError: cannot convert float NaN to integer")
                        /\ UNCHANGED brick_size
                   ELSE /\ brick_size' = 3 * atr_round
                        /\ pc' = "ready"
                        /\ UNCHANGED err
    /\ UNCHANGED <<source, runs, seed_close, seed_low, candles, idx,
                   renko_df, results>>
    /\ UNCHANGED nonRenkoVars

\* ------------------------------------------------------------------ get_renko
\* GetRenkoStart keeping the dataframe of the previous call
GetRenkoStart_NoReset ==
    /\ pc \in {"ready", "done"}
    /\ runs < MaxRuns
    /\ runs' = runs + 1
    /\ pc' = "seed_close"
    /\ UNCHANGED <<source, args, err, brick_size, fetches, seed_close,
                   seed_low, candles, idx, renko_df, results>>
    /\ UNCHANGED <<atr_candles, nonRenkoVars>>

\* line 90: renko_df = pd.DataFrame(columns=..., data=None)
GetRenkoStart ==
    /\ pc \in {"ready", "done"}
    /\ runs < MaxRuns
    /\ runs' = runs + 1
    /\ renko_df' = <<>>
    /\ pc' = "seed_close"
    /\ UNCHANGED <<source, args, err, brick_size, fetches, seed_close,
                   seed_low, candles, idx, results>>
    /\ UNCHANGED <<atr_candles, nonRenkoVars>>

\* SeedClose taking 0 as the first close of an empty dataframe
SeedClose_EmptyDefault ==
    /\ pc = "seed_close"
    /\ fetches' = fetches + 1
    /\ IF SourceCandleDf = None
       THEN Raise("AttributeError") /\ UNCHANGED seed_close
       ELSE IF brick_size = 0
       THEN Raise("ZeroDivisionError") /\ UNCHANGED seed_close
       ELSE /\ seed_close' =
                    IF Len(SourceCandleDf[1]) = 0 THEN 0
                    ELSE FloorDiv(SourceCandleDf[1][1].close, brick_size)
                            * brick_size
            /\ pc' = "seed_low"
            /\ UNCHANGED err
    /\ UNCHANGED <<source, args, brick_size, runs, seed_low, candles, idx,
                   renko_df, results>>
    /\ UNCHANGED <<atr_candles, nonRenkoVars>>

\* SeedClose rounding the quotient to the nearest integer instead of flooring
SeedClose_Round ==
    /\ pc = "seed_close"
    /\ fetches' = fetches + 1
    /\ IF SourceCandleDf = None
       THEN Raise("AttributeError") /\ UNCHANGED seed_close
       ELSE IF Len(SourceCandleDf[1]) = 0
       THEN Raise("KeyError") /\ UNCHANGED seed_close
       ELSE IF brick_size = 0
       THEN Raise("ZeroDivisionError") /\ UNCHANGED seed_close
       ELSE /\ seed_close' =
                    FloorDiv(2 * SourceCandleDf[1][1].close + brick_size,
                             2 * brick_size) * brick_size
            /\ pc' = "seed_low"
            /\ UNCHANGED err
    /\ UNCHANGED <<source, args, brick_size, runs, seed_low, candles, idx,
                   renko_df, results>>
    /\ UNCHANGED <<atr_candles, nonRenkoVars>>

\* SeedClose putting the seed brick one brick size lower, its close at the
\* floor's open
SeedClose_BrickBelow ==
    /\ pc = "seed_close"
    /\ fetches' = fetches + 1
    /\ IF SourceCandleDf = None
       THEN Raise("AttributeError") /\ UNCHANGED seed_close
       ELSE IF Len(SourceCandleDf[1]) = 0
       THEN Raise("KeyError") /\ UNCHANGED seed_close
       ELSE IF brick_size = 0
       THEN Raise("ZeroDivisionError") /\ UNCHANGED seed_close
       ELSE /\ seed_close' =
                    FloorDiv(SourceCandleDf[1][1].close, brick_size) * brick_size
                        - brick_size
            /\ pc' = "seed_low"
            /\ UNCHANGED err
    /\ UNCHANGED <<source, args, brick_size, runs, seed_low, candles, idx,
                   renko_df, results>>
    /\ UNCHANGED <<atr_candles, nonRenkoVars>>

\* line 143: close = (float(source_candle_df.loc[0, close]) // brick_size) * brick_size
SeedClose ==
    /\ pc = "seed_close"
    /\ fetches' = fetches + 1
    /\ IF SourceCandleDf = None
       THEN Raise("AttributeError") /\ UNCHANGED seed_close
       ELSE IF Len(SourceCandleDf[1]) = 0
       THEN Raise("KeyError") /\ UNCHANGED seed_close
       ELSE IF brick_size = 0
       THEN Raise("ZeroDivisionError") /\ UNCHANGED seed_close
       ELSE /\ seed_close' =
                    FloorDiv(SourceCandleDf[1][1].close, brick_size) * brick_size
            /\ pc' = "seed_low"
            /\ UNCHANGED err
    /\ UNCHANGED <<source, args, brick_size, runs, seed_low, candles, idx,
                   renko_df, results>>
    /\ UNCHANGED <<atr_candles, nonRenkoVars>>

\* line 144: low = float(source_candle_df.loc[0, low])
SeedLow ==
    /\ pc = "seed_low"
    /\ fetches' = fetches + 1
    /\ IF SourceCandleDf = None
       THEN Raise("AttributeError") /\ UNCHANGED seed_low
       ELSE IF Len(SourceCandleDf[1]) = 0
       THEN Raise("KeyError") /\ UNCHANGED seed_low
       ELSE /\ seed_low' = SourceCandleDf[1][1].low
            /\ pc' = "seed_date"
            /\ UNCHANGED err
    /\ UNCHANGED <<source, args, brick_size, runs, seed_close, candles, idx,
                   renko_df, results>>
    /\ UNCHANGED <<atr_candles, nonRenkoVars>>

\* lines 145-148 and 91: date = ...; renko_df.loc[0, :] = (date, close - b,
\* close, min(low, close - b), close, True)
SeedDate ==
    /\ pc = "seed_date"
    /\ fetches' = fetches + 1
    /\ IF SourceCandleDf = None
       THEN Raise("AttributeError") /\ UNCHANGED renko_df
       ELSE IF Len(SourceCandleDf[1]) = 0
       THEN Raise("KeyError") /\ UNCHANGED renko_df
       ELSE /\ renko_df' = SetRow0(renko_df,
                    Brick(SourceCandleDf[1][1].datetime,
                          seed_close - brick_size,
                          seed_close,
                          Min(seed_low, seed_close - brick_size),
                          seed_close,
                          TRUE))
            /\ pc' = "loop_fetch"
            /\ UNCHANGED err
    /\ UNCHANGED <<source, args, brick_size, runs, seed_close, seed_low,
                   candles, idx, results>>
    /\ UNCHANGED <<atr_candles, nonRenkoVars>>

\* line 93: self.source_candle_df.iterrows()
LoopFetch ==
    /\ pc = "loop_fetch"
    /\ fetches' = fetches + 1
    /\ IF SourceCandleDf = None
       THEN Raise("AttributeError") /\ UNCHANGED <<candles, idx>>
       ELSE /\ candles' = SourceCandleDf[1]
            /\ idx' = 0
            /\ pc' = "loop"
            /\ UNCHANGED err
    /\ UNCHANGED <<source, args, brick_size, runs, seed_close, seed_low,
                   renko_df, results>>
    /\ UNCHANGED <<atr_candles, nonRenkoVars>>

\* ProcessCandle concatenating the new bricks before the old ones
ProcessCandle_Prepend ==
    /\ pc = "loop"
    /\ idx < Len(candles)
    /\ idx' = idx + 1
    /\ renko_df' = NextBricks(renko_df, candles[idx + 1]) \o renko_df
    /\ UNCHANGED <<source, args, pc, err, brick_size, fetches, runs,
                   seed_close, seed_low, candles, results>>
    /\ UNCHANGED <<atr_candles, nonRenkoVars>>

\* ProcessCandle appending a row for every candle: a candle without bricks
\* restates the last brick under its own timestamp
ProcessCandle_RowPerCandle ==
    /\ pc = "loop"
    /\ idx < Len(candles)
    /\ idx' = idx + 1
    /\ renko_df' =
            LET next_bricks == NextBricks(renko_df, candles[idx + 1])
            IN  IF next_bricks = <<>>
                THEN Append(renko_df,
                        [Last(renko_df) EXCEPT
                            !.datetime = candles[idx + 1].datetime])
                ELSE renko_df \o next_bricks
    /\ UNCHANGED <<source, args, pc, err, brick_size, fetches, runs,
                   seed_close, seed_low, candles, results>>
    /\ UNCHANGED <<atr_candles, nonRenkoVars>>

\* lines 94-119: one iteration of the loop
ProcessCandle ==
    /\ pc = "loop"
    /\ idx < Len(candles)
    /\ idx' = idx + 1
    /\ renko_df' = renko_df \o NextBricks(renko_df, candles[idx + 1])
    /\ UNCHANGED <<source, args, pc, err, brick_size, fetches, runs,
                   seed_close, seed_low, candles, results>>
    /\ UNCHANGED <<atr_candles, nonRenkoVars>>

\* lines 121-122: return renko_df
Finish ==
    /\ pc = "loop"
    /\ idx = Len(candles)
    /\ results' = Append(results, renko_df)
    /\ pc' = "done"
    /\ UNCHANGED <<source, args, err, brick_size, fetches, runs, seed_close,
                   seed_low, candles, idx, renko_df>>
    /\ UNCHANGED <<atr_candles, nonRenkoVars>>

Next ==
    \/ Construct
    \/ GetRenkoStart
    \/ SeedClose
    \/ SeedLow
    \/ SeedDate
    \/ LoopFetch
    \/ ProcessCandle
    \/ Finish

Spec == Init /\ [][Next]_vars

TypeOK ==
    /\ pc \in {"new", "ready", "seed_close", "seed_low", "seed_date",
               "loop_fetch", "loop", "done", "error"}
    /\ (pc = "error") = (err # "")
    /\ Len(results) <= runs
    /\ runs <= MaxRuns

\* ------------------------------------------------------------- brick series
\* Every brick series in the state: the one get_renko is building and the
\* ones it has returned.
ProducedSeries == {renko_df} \cup {results[r] : r \in 1..Len(results)}

\* The positions i of series s followed by another brick
Pairs(s) == 1..(Len(s) - 1)

\* (C1) In every series produced with a positive brick size, the seed brick
\* included, an uptrend brick closes exactly one brick size above its open and
\* a downtrend brick exactly one brick size below it, so that
\* |close - open| = brick_size for every brick.
C1_TrendConsistency ==
    brick_size > 0 =>
        \A s \in ProducedSeries : \A i \in 1..Len(s) :
            /\ s[i].uptrend => s[i].close = s[i].open + brick_size
            /\ ~s[i].uptrend => s[i].close = s[i].open - brick_size
            /\ Abs(s[i].close - s[i].open) = brick_size

\* A returned series with a positive brick size that holds the seed, an
\* emitted uptrend brick and an emitted downtrend brick.
C1_Witness ==
    /\ brick_size > 0
    /\ \E r \in 1..Len(results) : \E i, j \in 2..Len(results[r]) :
        results[r][i].uptrend /\ ~results[r][j].uptrend

\* (C2) In every series produced with a positive brick size, every brick has
\* low <= min(open, close) and high >= max(open, close), whatever low and high
\* the candles carry.
C2_WickOutsideBody ==
    brick_size > 0 =>
        \A s \in ProducedSeries : \A i \in 1..Len(s) :
            /\ s[i].low <= Min(s[i].open, s[i].close)
            /\ s[i].high >= Max(s[i].open, s[i].close)

\* A returned series with a positive brick size where the clamp acted both
\* ways: an uptrend brick whose candle's low lies above the brick's open and a
\* downtrend brick whose candle's high lies below the brick's open.
C2_Witness ==
    /\ brick_size > 0
    /\ pc = "done"
    /\ \E i, j \in 2..Len(renko_df) :
        /\ renko_df[i].uptrend
        /\ candles[renko_df[i].datetime].low > renko_df[i].open
        /\ ~renko_df[j].uptrend
        /\ candles[renko_df[j].datetime].high < renko_df[j].open

\* (C3) For consecutive bricks of a series: with equal uptrend flags the later
\* brick opens at the earlier brick's close; with different flags (first brick
\* of a reversal) the later brick opens at the earlier brick's open.
C3_Chaining ==
    \A s \in ProducedSeries : \A i \in Pairs(s) :
        IF s[i + 1].uptrend = s[i].uptrend
        THEN s[i + 1].open = s[i].close
        ELSE s[i + 1].open = s[i].open

\* A returned series with a reversal pair and, inside one candle's batch, a
\* continuation pair.
C3_Witness ==
    \E r \in 1..Len(results) : \E i, j \in Pairs(results[r]) :
        /\ results[r][i + 1].uptrend # results[r][i].uptrend
        /\ results[r][j + 1].uptrend = results[r][j].uptrend
        /\ results[r][j + 1].datetime = results[r][j].datetime
        /\ j > 1

\* (C4, as claimed) For consecutive bricks of a series, continuation and
\* reversal alike, the close changes by exactly one brick size (stated here
\* for the positive brick sizes the synthesizer is meant for).
C4_Original ==
    brick_size > 0 =>
        \A s \in ProducedSeries : \A i \in Pairs(s) :
            s[i + 1].close - s[i].close \in {brick_size, -brick_size}

\* (C4, amended) For consecutive bricks of a series the close changes by one
\* brick size in the trend's direction when the two uptrend flags are equal,
\* and by two brick sizes in the new trend's direction when they differ.
C4_CloseSteps ==
    \A s \in ProducedSeries : \A i \in Pairs(s) :
        s[i + 1].close - s[i].close =
            IF s[i + 1].uptrend = s[i].uptrend
            THEN (IF s[i + 1].uptrend THEN brick_size ELSE -brick_size)
            ELSE (IF s[i + 1].uptrend THEN 2 * brick_size ELSE -2 * brick_size)

\* A returned series with a reversal to a downtrend, a reversal to an uptrend
\* and a continuation pair.
C4_Witness ==
    /\ pc = "done"
    /\ \E i, j, k \in Pairs(renko_df) :
        /\ renko_df[i].uptrend /\ ~renko_df[i + 1].uptrend
        /\ ~renko_df[j].uptrend /\ renko_df[j + 1].uptrend
        /\ renko_df[k].uptrend = renko_df[k + 1].uptrend

\* ------------------------------------------------------- reversal threshold
\* The rows of renko_df appended while candle k (k >= 2) was processed, and
\* the number of rows that were there before it was processed.
BricksOf(k) == {i \in 1..Len(renko_df) : renko_df[i].datetime = k}
NumBefore(k) == Cardinality({i \in 1..Len(renko_df) : renko_df[i].datetime < k})

\* (C5) Double-brick reversal threshold: with last brick close L and brick
\* size b, in an uptrend a candle closing at L - b appends nothing and one
\* closing at L - 2b appends exactly one brick, a downtrend brick; in a
\* downtrend a candle closing at L + b appends nothing and one closing at
\* L + 2b appends exactly one brick, an uptrend brick.
C5_ReversalThreshold ==
    [][(pc = "loop" /\ idx < Len(candles)) =>
        LET prev == Last(renko_df)
            L == prev.close
            c == candles[idx + 1].close
        IN  /\ (prev.uptrend /\ c = L - brick_size) => renko_df' = renko_df
            /\ (prev.uptrend /\ c = L - 2 * brick_size) =>
                    /\ Len(renko_df') = Len(renko_df) + 1
                    /\ IsPrefix(renko_df, renko_df')
                    /\ ~Last(renko_df').uptrend
            /\ (~prev.uptrend /\ c = L + brick_size) => renko_df' = renko_df
            /\ (~prev.uptrend /\ c = L + 2 * brick_size) =>
                    /\ Len(renko_df') = Len(renko_df) + 1
                    /\ IsPrefix(renko_df, renko_df')
                    /\ Last(renko_df').uptrend
      ]_vars

\* In an uptrend, a candle closing exactly one brick size below the last
\* brick close has appended nothing and a later candle closing exactly two
\* brick sizes below it has appended exactly one downtrend brick.
C5_Witness ==
    /\ pc \in {"loop", "done"}
    /\ brick_size > 0
    /\ \E k, m \in 2..idx :
        /\ k < m
        /\ BricksOf(k) = {}
        /\ renko_df[NumBefore(k)].uptrend
        /\ candles[k].close = renko_df[NumBefore(k)].close - brick_size
        /\ Cardinality(BricksOf(m)) = 1
        /\ renko_df[NumBefore(m)].uptrend
        /\ candles[m].close = renko_df[NumBefore(m)].close - 2 * brick_size
        /\ ~renko_df[NumBefore(m) + 1].uptrend

\* The mirrored cases of C5: in a downtrend a candle closing exactly two
\* brick sizes above the last brick close has appended exactly one uptrend
\* brick.
C5_WitnessDown ==
    /\ pc \in {"loop", "done"}
    /\ brick_size > 0
    /\ \E m \in 2..idx :
        /\ Cardinality(BricksOf(m)) = 1
        /\ ~renko_df[NumBefore(m)].uptrend
        /\ candles[m].close = renko_df[NumBefore(m)].close + 2 * brick_size
        /\ renko_df[NumBefore(m) + 1].uptrend

\* ... and one closing exactly one brick size above it has appended nothing.
C5_WitnessDownNone ==
    /\ pc \in {"loop", "done"}
    /\ brick_size > 0
    /\ \E k \in 2..idx :
        /\ BricksOf(k) = {}
        /\ ~renko_df[NumBefore(k)].uptrend
        /\ candles[k].close = renko_df[NumBefore(k)].close + brick_size

\* ---------------------------------------------------------------- seed brick
\* q is the floor of the quotient c / b (b # 0)
IsFloorOfQuotient(q, c, b) ==
    IF b > 0 THEN q * b <= c /\ c < (q + 1) * b
    ELSE q * b >= c /\ c > (q + 1) * b

\* (C6) The first brick of every series is built from the first candle only:
\* close = floor(first.close / brick_size) * brick_size, open = close -
\* brick_size, high = close, low = min(first.low, open) and uptrend = true;
\* a first close of 107 with brick size 10 floors to 100.
C6_SeedBrick ==
    /\ FloorDiv(107, 10) * 10 = 100
    /\ \A s \in ProducedSeries : Len(s) >= 1 =>
        LET first == source[1][1]
            seed  == s[1]
        IN  /\ \E q \in -(MaxPrice + 1)..(MaxPrice + 1) :
                /\ IsFloorOfQuotient(q, first.close, brick_size)
                /\ seed.close = q * brick_size
            /\ seed.open = seed.close - brick_size
            /\ seed.high = seed.close
            /\ seed.low = Min(first.low, seed.open)
            /\ seed.uptrend

\* A returned series with a brick size above 1 whose first candle closes off
\* the brick grid with its low under the seed's open.
C6_Witness ==
    /\ brick_size > 1
    /\ \E r \in 1..Len(results) :
        /\ results[r][1].close < source[1][1].close
        /\ results[r][1].low = source[1][1].low
        /\ results[r][1].low < results[r][1].open

\* ------------------------------------------------- get_renko as a function
\* The seed brick of candle dataframe cs (non-empty)
InitialUptrendRenkoBrick(cs) ==
    LET close == FloorDiv(cs[1].close, brick_size) * brick_size
        low   == cs[1].low
    IN  Brick(cs[1].datetime, close - brick_size, close,
              Min(low, close - brick_size), close, TRUE)

\* The loop of get_renko over rows i.. of cs, started with dataframe df
RECURSIVE LoopOver(_, _, _)
LoopOver(df, cs, i) ==
    IF i > Len(cs) THEN df
    ELSE LoopOver(df \o NextBricks(df, cs[i]), cs, i + 1)

\* The series get_renko returns for candle dataframe cs (non-empty)
GetRenko(cs) == LoopOver(<<InitialUptrendRenkoBrick(cs)>>, cs, 1)

\* A step of one get_renko call keeps every row of renko_df and of results
\* where it is; the seeding step leaves exactly one row.
AppendOnlyStep ==
    /\ (pc = "seed_date" /\ pc' = "loop_fetch") => Len(renko_df') = 1
    /\ pc \in {"loop_fetch", "loop"} => IsPrefix(renko_df, renko_df')
    /\ IsPrefix(results, results')

\* The series returned for the whole candle sequence extends the series of
\* every non-empty prefix of the candle sequence.
PrefixOfWhole ==
    pc = "done" =>
        \A k \in 1..Len(candles) :
            IsPrefix(GetRenko(SubSeq(candles, 1, k)), Last(results))

\* (C7) While get_renko processes the candles the brick sequence only grows
\* at its end: it starts with exactly one seed brick, each candle's bricks go
\* after all earlier ones and no earlier brick is changed, removed or
\* reordered; hence the series of a non-empty prefix of the candle sequence
\* is a prefix of the series of the whole sequence.
C7_AppendOnly == [][AppendOnlyStep]_vars /\ []PrefixOfWhole

\* A returned series to which two different candles have appended bricks,
\* one of them a batch of at least two.
C7_Witness ==
    /\ pc = "done"
    /\ Len(candles) >= 3
    /\ \E k, m \in 2..Len(candles) :
        /\ k < m
        /\ Cardinality(BricksOf(k)) >= 1
        /\ Cardinality(BricksOf(m)) >= 2
        /\ Len(GetRenko(SubSeq(candles, 1, k))) < Len(renko_df)

\* (C8) Determinism: get_renko calls over the same candle sequence with the
\* same brick size return identical brick sequences.
C8_Determinism ==
    \A r1, r2 \in 1..Len(results) : results[r1] = results[r2]

\* Two get_renko calls have returned, each a series with emitted bricks of
\* both trends.
C8_Witness ==
    /\ Len(results) >= 2
    /\ \E i, j \in 2..Len(results[2]) :
        results[2][i].uptrend /\ ~results[2][j].uptrend

\* ------------------------------------------------------------ error handling
ExactlyOneSupplied ==
    (args.brick_size = None) # (args.brick_size_from_atr_of = None)

ConfigurationError == err = "ValueError: exactly one must be provided"

\* (C9) Constructing a Renko with both or neither of brick_size and
\* brick_size_from_atr_of raises before the instrument is validated, before
\* any candle is fetched and before any brick is produced; with exactly one
\* of them no configuration error is raised.
C9_MutuallyExclusive ==
    pc # "new" =>
        /\ ~ExactlyOneSupplied =>
                /\ pc = "error"
                /\ ConfigurationError
                /\ fetches = 0
                /\ runs = 0
                /\ renko_df = <<>>
                /\ results = <<>>
        /\ ExactlyOneSupplied => ~ConfigurationError

\* The constructor was called with both arguments supplied and raised.
C9_Witness ==
    /\ args.brick_size # None
    /\ args.brick_size_from_atr_of # None
    /\ pc = "error"
    /\ ConfigurationError

\* The constructor was called with neither argument supplied and raised.
C9_WitnessNeither ==
    /\ pc = "error"
    /\ args.brick_size = None
    /\ args.brick_size_from_atr_of = None
    /\ ConfigurationError

\* (C10) If the candle source yields an empty candle sequence, get_renko
\* ends in an error and returns no brick series.
C10_EmptySource ==
    (source = Some(<<>>) /\ runs >= 1) =>
        /\ pc \in {"seed_close", "error"}
        /\ pc = "error" => err = "KeyError"
        /\ results = <<>>
        /\ renko_df = <<>>

\* get_renko was called on an empty candle sequence and has raised.
C10_Witness ==
    /\ source = Some(<<>>)
    /\ runs = 1
    /\ pc = "error"
    /\ err = "KeyError"

\* ------------------------------------------------------ brick-size resolution
\* Renko(...) returned an object: __init__ ran to its end
ConstructionSucceeded == pc = "ready"

\* (C11) Whenever Renko construction succeeds, the resolved brick size is a
\* positive integer, whether it was supplied as a fixed size or derived from
\* the ATR as 3 * round(last ATR value).
C11_PositiveBrickSize ==
    ConstructionSucceeded => brick_size > 0

\* The constructor went down the ATR path: only brick_size_from_atr_of was
\* supplied and the instrument was valid
AtrRequested ==
    /\ pc # "new"
    /\ args.brick_size = None
    /\ args.brick_size_from_atr_of # None
    /\ source # None

atr_period == args.brick_size_from_atr_of[1]

\* The constructor raised while taking the last ATR value
AtrAborted ==
    /\ pc = "error"
    /\ err \in {"IndexError", "ValueError: cannot convert float NaN to integer"}
    /\ runs = 0
    /\ results = <<>>

\* (C12, as stated) With the brick size derived from the ATR, construction
\* succeeds whenever the reference span holds at least atr_period candles,
\* and aborts with an error when it holds fewer.
C12_Original ==
    AtrRequested =>
        IF atr_candles >= atr_period THEN ~AtrAborted ELSE AtrAborted

\* (C12) With the brick size derived from the ATR, the last ATR value is
\* defined, and construction succeeds, exactly when the reference span holds
\* at least atr_period + 1 candles; with atr_period candles or fewer the
\* constructor raises, no Renko object exists and no series is produced.
C12_AtrWarmUp ==
    AtrRequested =>
        IF atr_candles >= atr_period + 1 THEN ~AtrAborted ELSE AtrAborted

\* The boundary: exactly atr_period reference candles, construction aborted
C12_Witness ==
    /\ AtrRequested
    /\ atr_candles = atr_period
    /\ AtrAborted

\* One candle more than the period: a Renko object with an ATR brick size
C12_WitnessDefined ==
    /\ AtrRequested
    /\ atr_candles = atr_period + 1
    /\ pc = "ready"
    /\ brick_size = 3

\* ------------------------------------------- candle source changing under a run
\* get_renko is between its first and its last read of source_candle_df
GetRenkoRunning == pc \in {"seed_close", "seed_low", "seed_date", "loop_fetch"}

\* The data behind the candle source changes while get_renko runs: every
\* access of the source_candle_df property asks the dataframing service
\* again, which serves the cached response only while it is fresh and
\* otherwise refetches.  The refetch fails (the service returns None) or
\* returns the series with its oldest candle gone.
SourceChanges ==
    /\ GetRenkoRunning
    /\ source # None
    /\ \/ source' = None
       \/ /\ Len(source[1]) > 0
          /\ source' = Some(Tail(source[1]))
    /\ UNCHANGED <<args, pc, err, brick_size, fetches, runs, seed_close,
                   seed_low, candles, idx, renko_df, results, atr_candles>>
    /\ UNCHANGED nonRenkoVars

NextRefetch ==
    \/ Next
    \/ SourceChanges

\* The candle sequences of the runs under a changing source: closes at the
\* two ends of the price range
InitRefetch ==
    /\ Init
    /\ source # None =>
            \A i \in 1..Len(source[1]) : source[1][i].close \in {0, MaxPrice}

SpecRefetch == InitRefetch /\ [][NextRefetch]_vars

\* (C13) One run of get_renko (with a positive brick size) works on one
\* snapshot of the candle sequence: the seed brick's close, low and timestamp
\* come from the first candle of the very sequence the loop iterates over,
\* even if the data behind the candle source changes while get_renko runs.
C13_OneSnapshot ==
    (pc \in {"loop", "done"} /\ brick_size > 0) =>
        /\ Len(candles) > 0
        /\ renko_df[1] = InitialUptrendRenkoBrick(candles)

\* ------------------------------------------------------------- termination
\* get_renko has been called and has not returned or raised
InGetRenko ==
    pc \in {"seed_close", "seed_low", "seed_date", "loop_fetch", "loop"}

\* A step of the loop with a positive brick size: it either takes the next
\* candle, once, and appends at most |candle.close - last close| / brick_size
\* bricks, or leaves the loop, and then every candle has been taken.
LoopStepBounded ==
    (pc = "loop" /\ brick_size > 0) =>
        /\ candles' = candles
        /\ \/ /\ pc' = "loop"
              /\ idx' = idx + 1
              /\ idx' <= Len(candles)
              /\ Len(renko_df') >= Len(renko_df)
              /\ (Len(renko_df') - Len(renko_df)) * brick_size
                    <= Abs(candles[idx'].close - Last(renko_df).close)
           \/ /\ pc' = "done"
              /\ idx = Len(candles)
              /\ idx' = idx

\* get_renko is never stuck: some step of it can be taken
CanProceed == InGetRenko => ENABLED Next

\* (C14) For every finite candle sequence and every positive brick size
\* get_renko terminates: every step of the run can be taken, each step of the
\* loop processes the next candle once, strictly shortening the rest of the
\* sequence, and appends at most |candle.close - last_brick_close| /
\* brick_size bricks; the loop is left exactly when no candle remains.
C14_Terminates == [][LoopStepBounded]_vars /\ []CanProceed

\* A finished run over MaxLen candles where the bound was met with equality
\* by a candle that appended two bricks or more
C14_Witness ==
    /\ pc = "done"
    /\ brick_size > 0
    /\ idx = MaxLen
    /\ \E k \in 1..MaxLen :
            /\ Cardinality(BricksOf(k)) >= 2
            /\ \E i \in BricksOf(k) :
                    /\ i > 1
                    /\ renko_df[i - 1].datetime < k
                    /\ Cardinality(BricksOf(k)) * brick_size
                         = Abs(candles[k].close - renko_df[i - 1].close)

\* ---------------------------------------------------------- signed brick count
\* n is the quotient d / b truncated toward zero (b # 0): it has the
\* quotient's sign or is zero, and |n| is the largest count of whole |b| in |d|
IsQuotientTruncatedTowardZero(n, d, b) ==
    /\ n * d * b >= 0
    /\ Abs(n) * Abs(b) <= Abs(d)
    /\ Abs(d) < (Abs(n) + 1) * Abs(b)

\* A loop step takes candle idx + 1 with a signed brick count that is the
\* truncated quotient; on a negative quotient that is not whole the count is
\* the ceiling, one above the floor.
SignedCountTruncates ==
    (pc = "loop" /\ pc' = "loop" /\ brick_size # 0) =>
        LET d == candles[idx'].close - Last(renko_df).close
            n == CalculateSignedNumOfBricks(candles[idx'].close,
                                            Last(renko_df).close)
        IN  /\ IsQuotientTruncatedTowardZero(n, d, brick_size)
            /\ (d * brick_size < 0 /\ n * brick_size # d) =>
                    n = FloorDiv(d, brick_size) + 1

\* (C20) The signed brick count of a candle is (candle.close -
\* last_brick_close) / brick_size truncated toward zero, not floored: for a
\* negative quotient it is the ceiling; last brick close 120, candle close 95
\* and brick size 10 give -2 where the floor is -3.
C20_TruncatesTowardZero ==
    /\ [][SignedCountTruncates]_vars
    /\ [](TruncDiv(95 - 120, 10) = -2 /\ FloorDiv(95 - 120, 10) = -3)

\* A candle closing one and a half brick sizes below an uptrend brick has
\* been processed: the count was -1, not the floor -2, so no reversal brick
\* was appended.
C20_Witness ==
    /\ pc \in {"loop", "done"}
    /\ brick_size = 2
    /\ \E k \in 2..idx :
        /\ BricksOf(k) = {}
        /\ renko_df[NumBefore(k)].uptrend
        /\ candles[k].close = renko_df[NumBefore(k)].close - 3

\* ================================================================ Portfolio
\* The portfolio of models/portfolio.py in incremental mode over a universe
\* whose closes_df has MaxDates dates.  Dates are integers; the universe has
\* the even ones, so that a date asked for may fall between two of them.
UniverseDates == [i \in 1..MaxDates |-> 2 * i]

\* The dates step_to may be called with: before, between, on and after the
\* universe dates
AnyDates == 0..(2 * MaxDates + 2)

StepCounts == 0..MaxSteps

\* DataFrameDateIndexHelper.get_nearest_date_idx: get_indexer([date],
\* method='nearest') on the sorted index; a tie goes to the larger index
GetNearestDateIdx(datetime_index, date) ==
    CHOOSE i \in 1..Len(datetime_index) :
        \A j \in 1..Len(datetime_index) :
            \/ Abs(datetime_index[i] - date) < Abs(datetime_index[j] - date)
            \/ /\ Abs(datetime_index[i] - date) = Abs(datetime_index[j] - date)
               /\ i >= j

GetNearestDate(datetime_index, date) ==
    datetime_index[GetNearestDateIdx(datetime_index, date)]

\* DataFrameDateIndexHelper.next_date: None stands for the IndexError
NextDate(datetime_index, date) ==
    LET current_date_index == GetNearestDateIdx(datetime_index, date)
    IN  IF current_date_index + 1 > Len(datetime_index) THEN None
        ELSE Some(datetime_index[current_date_index + 1])

\* InstrumentGroup.get_all_available_dates(start_date=..., end_date=None)
GetAllAvailableDates(start_date) ==
    SubSeq(UniverseDates, GetNearestDateIdx(UniverseDates, start_date),
           Len(UniverseDates))

\* Portfolio.__start_date of a portfolio built with start_date=None
StartDate == UniverseDates[1]

\* The optimizer's holdings for config.end_date = date: the universe's
\* sorted KPI snapshot of that date, a function of the date alone
SortedKpiSnapshot(date) == [snapshot_date |-> date]

\* Portfolio.date_range: the dates of the history, in order of appearance
DateRange(h) == [i \in 1..Len(h) |-> h[i].date]

\* OptimizationHistoryMixin.append_to_history
AppendToHistory(h, date, holdings) ==
    SelectSeq(h, LAMBDA row : row.date # date)
        \o <<[date |-> date, holdings |-> holdings]>>

\* The fields of the Portfolio and of its optimizer that the steps change
PortfolioState ==
    [history |-> history, end_date |-> end_date,
     config_end_date |-> config_end_date,
     current_holdings_kpis |-> current_holdings_kpis, err |-> ""]

\* OptimizationMixin._step_optimize_incremental_mode driven by
\* islice(optimization_gen, num_periods) in Portfolio.step_up: each result
\* moves config.end_date to the universe date after it, takes the holdings
\* of that date and appends them to the history; the generator stops when
\* next_date raises IndexError.
RECURSIVE StepUp(_, _)
StepUp(p, num_periods) ==
    IF num_periods <= 0 THEN p
    ELSE LET latest_optimized_date == NextDate(UniverseDates, p.config_end_date)
         IN  IF latest_optimized_date = None THEN p
             ELSE LET date == latest_optimized_date[1]
                      holdings == SortedKpiSnapshot(date)
                  IN  StepUp([p EXCEPT
                                !.config_end_date = date,
                                !.end_date = date,
                                !.current_holdings_kpis = Some(holdings),
                                !.history = AppendToHistory(p.history, date,
                                                            holdings)],
                             num_periods - 1)

\* Python's s[-n:] for n >= 0: the last n elements, and all of s for n = 0
SliceFromMinus(s, n) ==
    IF n = 0 \/ n >= Len(s) THEN s ELSE SubSeq(s, Len(s) - n + 1, Len(s))

\* Portfolio.step_back, lines 273-285.  Dropping every date leaves
\* date_range empty and date_range[-1] raises IndexError, after the drop.
StepBack(p, num_periods) ==
    LET date_range == DateRange(p.history)
    IN  IF Len(date_range) <= 1 THEN p
        ELSE LET n == IF num_periods > Len(date_range) - 1
                      THEN Len(date_range) - 1 ELSE num_periods
                 dates_to_be_dropped == SliceFromMinus(date_range, n)
                 dropped == {dates_to_be_dropped[i] :
                                i \in 1..Len(dates_to_be_dropped)}
                 kept == SelectSeq(p.history,
                                   LAMBDA row : row.date \notin dropped)
             IN  IF Len(kept) = 0
                 THEN [p EXCEPT !.history = kept, !.err = "IndexError"]
                 ELSE [p EXCEPT !.history = kept,
                                !.current_holdings_kpis =
                                    Some(Last(kept).holdings)]

\* Portfolio.step_to, lines 219-255
StepTo(p, asked_date) ==
    LET possible_dates == GetAllAvailableDates(StartDate)
        date == IF asked_date < possible_dates[1] THEN possible_dates[1]
                ELSE IF asked_date > Last(possible_dates)
                THEN Last(possible_dates)
                ELSE GetNearestDate(possible_dates, asked_date)
        curr_end_idx == GetNearestDateIdx(possible_dates, p.end_date)
        target_end_idx == GetNearestDateIdx(possible_dates, date)
    IN  IF date > p.end_date THEN StepUp(p, target_end_idx - curr_end_idx)
        ELSE IF date < p.end_date
        THEN StepBack(p, curr_end_idx - target_end_idx)
        ELSE p

\* No Renko object is under construction and the candle source is unused
RenkoUnused ==
    /\ source = None
    /\ args = [brick_size |-> None, brick_size_from_atr_of |-> None]
    /\ pc = "new"
    /\ err = ""
    /\ brick_size = 0
    /\ fetches = 0
    /\ runs = 0
    /\ seed_close = 0
    /\ seed_low = 0
    /\ candles = <<>>
    /\ idx = 0
    /\ renko_df = <<>>
    /\ results = <<>>
    /\ atr_candles = 0

\* Portfolio(number_of_holdings, universe): incremental mode, start_date and
\* end_date at the first universe date, holdings and history of that date
InitPortfolio ==
    /\ RenkoUnused
    /\ CacheUnused
    /\ end_date = StartDate
    /\ config_end_date = StartDate
    /\ current_holdings_kpis = Some(SortedKpiSnapshot(StartDate))
    /\ history = <<[date |-> StartDate,
                    holdings |-> SortedKpiSnapshot(StartDate)]>>
    /\ pf_call = None
    /\ pf_err = ""

\* The caller's call `op(arg)` took the portfolio to state p
Called(op, arg, p) ==
    /\ pf_call' = Some([op |-> op, arg |-> arg])
    /\ history' = p.history
    /\ end_date' = p.end_date
    /\ config_end_date' = p.config_end_date
    /\ current_holdings_kpis' = p.current_holdings_kpis
    /\ pf_err' = p.err
    /\ UNCHANGED <<renkoVars, cacheVars>>

CallStepUp ==
    /\ pf_err = ""
    /\ \E num_periods \in StepCounts :
        Called("step_up", num_periods, StepUp(PortfolioState, num_periods))

CallStepBack ==
    /\ pf_err = ""
    /\ \E num_periods \in StepCounts :
        Called("step_back", num_periods, StepBack(PortfolioState, num_periods))

CallStepTo ==
    /\ pf_err = ""
    /\ \E date \in AnyDates :
        Called("step_to", date, StepTo(PortfolioState, date))

NextPortfolio ==
    \/ CallStepUp
    \/ CallStepBack
    \/ CallStepTo

SpecPortfolio == InitPortfolio /\ [][NextPortfolio]_vars

PortfolioTypeOK ==
    /\ pf_err \in {"", "IndexError"}
    /\ \A i \in 1..Len(history) : history[i].date \in
            {UniverseDates[j] : j \in 1..MaxDates}

\* ------------------------------------------------------- Portfolio claims
\* The universe dates available to the portfolio, as a set
AvailableDates ==
    {GetAllAvailableDates(StartDate)[i] :
        i \in 1..Len(GetAllAvailableDates(StartDate))}

\* x is an available date nearest to d (the first one when d is earlier than
\* all of them, the last one when d is later)
IsNearestAvailable(x, d) ==
    /\ x \in AvailableDates
    /\ \A y \in AvailableDates : Abs(x - d) <= Abs(y - d)

\* The last call made on the portfolio was op(arg), for some arg
LastCallWas(op) == pf_call # None /\ pf_call[1].op = op

\* After step_to(d) the latest history date is an available date nearest d
StepToReachesNearest ==
    LastCallWas("step_to") =>
        /\ pf_err = ""
        /\ Len(history) > 0
        /\ IsNearestAvailable(Last(history).date, pf_call[1].arg)

\* A step_to(d) made right after a step_to(d) changes nothing
StepToTwiceChangesNothing ==
    (LastCallWas("step_to") /\ pf_call' = pf_call) =>
        /\ history' = history
        /\ current_holdings_kpis' = current_holdings_kpis

\* (C15) In incremental mode, from any state reached by earlier step_up /
\* step_back / step_to calls, after step_to(d) the latest date of the holding
\* history is the available universe date nearest to d (the first available
\* date when d is earlier, the last when d is later), and calling step_to(d)
\* a second time changes nothing.
C15_StepTo == []StepToReachesNearest /\ [][StepToTwiceChangesNothing]_vars

\* This step is a call step_back(n) on a history of k dates: it removes
\* exactly the min(n, k - 1) latest dates, keeps the first date, and leaves
\* as current holdings those recorded for the new latest date.
StepBackRemovesLatest ==
    (pf_call' # None /\ pf_call'[1].op = "step_back") =>
        LET n == pf_call'[1].arg
            k == Len(history)
        IN  /\ pf_err' = ""
            /\ history' = SubSeq(history, 1, k - Min(n, k - 1))
            /\ history'[1] = history[1]
            /\ current_holdings_kpis' = Some(Last(history').holdings)

\* (C16) In incremental mode step_back(n), for any n >= 0, on a holding
\* history of k dates removes exactly the min(n, k - 1) latest dates: the
\* first date is never removed, and afterwards the current holdings are the
\* holdings recorded for the new latest date.
C16_StepBack == [][StepBackRemovesLatest]_vars

\* The universe dates after `date`, in order
DatesFollowing(date) ==
    SelectSeq(GetAllAvailableDates(StartDate), LAMBDA d : d > date)

\* This step is a call step_up(n): the dates it appends are the n available
\* dates that immediately follow the latest history date, or all remaining.
StepUpAppendsFollowing ==
    (pf_call' # None /\ pf_call'[1].op = "step_up") =>
        LET n == pf_call'[1].arg
            following == DatesFollowing(Last(history).date)
        IN  /\ pf_err' = ""
            /\ DateRange(history') =
                    DateRange(history)
                        \o SubSeq(following, 1, Min(n, Len(following)))

\* (C17) In incremental mode, from any state reached by earlier step_up /
\* step_back / step_to calls, step_up(n) moves the portfolio ahead by n
\* periods from where it stands: it appends to the holding history the n
\* available universe dates that immediately follow the current latest
\* history date, or all the remaining ones when fewer than n remain.
C17_StepUp == [][StepUpAppendsFollowing]_vars

\* ============================================================ ResponseCacher
\* DefaultConfigConstants.DEFAULT_CACHE_THRESHOLD_PERIOD_DAYS, in days
DEFAULT_CACHE_THRESHOLD_PERIOD_DAYS == 5

\* AlphaVantageEnum.TIME_SERIES_DAILY.value.split('.')
Apis == {<<"alpha_vantage", "time_series_daily">>}

\* Instrument symbols, as sequences of characters
Symbols == {<<"x", ".", "y">>, <<"x", ":", "y">>, <<"Z">>}

\* Response documents (response.json() of a successful call)
Data == {"r1", "r2"}

\* str.lower() on the characters in use
Lower(ch) ==
    CASE ch = "X" -> "x" [] ch = "Y" -> "y" [] ch = "Z" -> "z" [] OTHER -> ch

\* which_instrument.lower().replace(' ', '_').replace('.', '_').replace(':', '_')
DirForResponseFile(which_instrument) ==
    [i \in 1..Len(which_instrument) |->
        IF Lower(which_instrument[i]) \in {" ", ".", ":"} THEN "_"
        ELSE Lower(which_instrument[i])]

\* DefaultConfigConstants.DEFAULT_RESPONSE_CACHE_DIR and one more directory
DEFAULT_RESPONSE_CACHE_DIR == "response_cache"
Dirs == {DEFAULT_RESPONSE_CACHE_DIR, "d"}

\* os.path.join(dir, api_dir, dir_for_response_file, response_file_name)
ResponseFilePathIn(dir, which_api, which_instrument) ==
    <<dir, which_api[1], DirForResponseFile(which_instrument),
      <<which_api[2], "_response.json">>>>

\* os.path.join(self.__RESPONSE_CACHE_DIR, api_dir, dir_for_response_file,
\* response_file_name)
ResponseFilePath(which_api, which_instrument) ==
    ResponseFilePathIn(response_cache_dir, which_api, which_instrument)

ResponseFilePaths ==
    {ResponseFilePathIn(d, a, s) : d \in Dirs, a \in Apis, s \in Symbols}

\* ResponseCacher.cache_response_data on the files: open(path, 'w'), json.dump
CacheResponseData(files, which_api, which_instrument, response_data, now) ==
    [files EXCEPT ![ResponseFilePath(which_api, which_instrument)] =
        Some([data |-> response_data, mtime |-> now])]

\* IsResponseDataCached taking a file as stale from the threshold age on
IsResponseDataCached_StrictlyWithin(files, which_api, which_instrument, now) ==
    LET f == files[ResponseFilePath(which_api, which_instrument)]
    IN  IF f = None THEN FALSE
        ELSE now - f[1].mtime < cache_threshold_period

\* ResponseCacher.is_response_data_cached, lines 137-142
IsResponseDataCached(files, which_api, which_instrument, now) ==
    LET f == files[ResponseFilePath(which_api, which_instrument)]
    IN  IF f = None THEN FALSE
        ELSE now - f[1].mtime <= cache_threshold_period

\* ResponseCacher.retrieve_from_cache: None, or Some(json.load of the file)
RetrieveFromCache(files, which_api, which_instrument, now) ==
    IF ~IsResponseDataCached(files, which_api, which_instrument, now)
    THEN None
    ELSE Some(files[ResponseFilePath(which_api, which_instrument)][1].data)

\* The response cache directory is empty, the threshold is the default one,
\* nothing has been stored and no call has been made
InitCache ==
    /\ RenkoUnused
    /\ PortfolioUnused
    /\ cache_files = [path \in ResponseFilePaths |-> None]
    /\ clock = 0
    /\ cache_threshold_period = DEFAULT_CACHE_THRESHOLD_PERIOD_DAYS
    /\ stored = [pair \in Apis \X Symbols |-> None]
    /\ cache_call = None
    /\ agg_call = None
    /\ response_cache_dir = DEFAULT_RESPONSE_CACHE_DIR
    /\ fs = [d \in Dirs |->
                IF d = DEFAULT_RESPONSE_CACHE_DIR THEN "dir" ELSE "absent"]
    /\ dir_call = None

\* No aggregation call is between its first and its last statement
AggregationIdle ==
    IF agg_call = None THEN TRUE ELSE agg_call[1].pc # "loop"

\* A day passes
Tick ==
    /\ AggregationIdle
    /\ clock < MaxClock
    /\ clock' = clock + 1
    /\ cache_call' = None
    /\ agg_call' = None
    /\ UNCHANGED <<cache_files, cache_threshold_period, stored>>
    /\ UNCHANGED <<renkoVars, portfolioVars, dirVars>>

\* ResponseCacher.set_cache_threshold_period, lines 33-38: a period that is
\* not positive raises ValueError and sets nothing
SetCacheThresholdPeriod ==
    /\ AggregationIdle
    /\ \E cache_threshold_period_days \in 0..MaxThreshold :
        cache_threshold_period' =
            IF cache_threshold_period_days <= 0 THEN cache_threshold_period
            ELSE cache_threshold_period_days
    /\ cache_call' = None
    /\ agg_call' = None
    /\ UNCHANGED <<cache_files, clock, stored>>
    /\ UNCHANGED <<renkoVars, portfolioVars, dirVars>>

\* A caller stores response_data for (which_api, which_instrument)
CallCacheResponseData ==
    /\ AggregationIdle
    /\ \E which_api \in Apis, which_instrument \in Symbols,
          response_data \in Data :
        /\ cache_files' = CacheResponseData(cache_files, which_api,
                                            which_instrument, response_data,
                                            clock)
        /\ stored' = [stored EXCEPT ![<<which_api, which_instrument>>] =
                        Some([data |-> response_data, at |-> clock])]
    /\ cache_call' = None
    /\ agg_call' = None
    /\ UNCHANGED <<clock, cache_threshold_period>>
    /\ UNCHANGED <<renkoVars, portfolioVars, dirVars>>

\* A caller retrieves the response of (which_api, which_instrument)
CallRetrieveFromCache ==
    /\ AggregationIdle
    /\ \E which_api \in Apis, which_instrument \in Symbols :
        cache_call' = Some([which_api |-> which_api,
                            which_instrument |-> which_instrument,
                            result |-> RetrieveFromCache(cache_files, which_api,
                                                         which_instrument,
                                                         clock)])
    /\ agg_call' = None
    /\ UNCHANGED <<cache_files, clock, cache_threshold_period, stored>>
    /\ UNCHANGED <<renkoVars, portfolioVars, dirVars>>

\* ------------------------------------------- aggregation of API responses
\* What the API may answer to one request: a status code and a body that is
\* a non-empty JSON object (a response document), an empty one, or not JSON
EmptyJson == "{}"
Undecodable == "<html>"

Responses ==
    {[status_code |-> 200, body |-> b] :
        b \in Data \cup {EmptyJson, Undecodable}}
    \cup {[status_code |-> c, body |-> Undecodable] : c \in {204, 500}}

\* ValidationService.is_status_code_ok: TRUE on 200; otherwise
\* response.raise_for_status() raises HTTPError on a 4xx or 5xx status and
\* the method returns FALSE on any other
IsStatusCodeOk(response) ==
    IF response.status_code = 200 THEN "True"
    ELSE IF response.status_code >= 400 /\ response.status_code < 600
    THEN "HTTPError"
    ELSE "False"

\* ValidationService.does_json_exist
DoesJsonExist(response) == response.body \in Data

\* TimeSeriesService.__get_data, lines 56-59: the response document, None,
\* or the exception of the status check
GetData(response) ==
    IF IsStatusCodeOk(response) = "HTTPError"
    THEN [raised |-> "HTTPError", data |-> None]
    ELSE IF ~(IsStatusCodeOk(response) = "True" /\ DoesJsonExist(response))
    THEN [raised |-> "", data |-> None]
    ELSE [raised |-> "", data |-> Some(response.body)]

\* The instrument lists of one aggregation call
SymbolLists == UNION {[1..n -> Symbols] : n \in 0..MaxSymbols}

\* _get_aggregated_data_for_multiple_instruments is called: instruments = {}
CallGetAggregatedData ==
    /\ AggregationIdle
    /\ \E which_api \in Apis, instrument_symbols \in SymbolLists :
        agg_call' = Some([which_api |-> which_api,
                          instrument_symbols |-> instrument_symbols,
                          i |-> 1,
                          how |-> [k \in 1..Len(instrument_symbols) |->
                                     "not_reached"],
                          instruments |-> <<>>,
                          err |-> "",
                          pc |-> "loop"])
    /\ cache_call' = None
    /\ UNCHANGED <<cache_files, clock, cache_threshold_period, stored>>
    /\ UNCHANGED <<renkoVars, portfolioVars, dirVars>>

\* One iteration of the loop, lines 45-72, served from the cache
AggregateFromCache ==
    /\ agg_call # None
    /\ agg_call[1].pc = "loop"
    /\ agg_call[1].i <= Len(agg_call[1].instrument_symbols)
    /\ LET c == agg_call[1]
           symbol == c.instrument_symbols[c.i]
           cached_instrument ==
               RetrieveFromCache(cache_files, c.which_api, symbol, clock)
       IN  /\ cached_instrument # None
           /\ agg_call' = Some([c EXCEPT
                   !.instruments = (symbol :> cached_instrument[1]) @@ @,
                   !.how[c.i] = "cached",
                   !.i = @ + 1])
    /\ UNCHANGED <<cache_files, clock, cache_threshold_period, stored,
                   cache_call>>
    /\ UNCHANGED <<renkoVars, portfolioVars, dirVars>>

\* One iteration of the loop, lines 45-72, with a call of the API: the API
\* answers with one of Responses; an exception ends the loop and the call
AggregateFromApi ==
    /\ agg_call # None
    /\ agg_call[1].pc = "loop"
    /\ agg_call[1].i <= Len(agg_call[1].instrument_symbols)
    /\ LET c == agg_call[1]
           symbol == c.instrument_symbols[c.i]
       IN  /\ RetrieveFromCache(cache_files, c.which_api, symbol, clock) = None
           /\ \E response \in Responses :
               LET response_data == GetData(response) IN
               IF response_data.raised # ""
               THEN /\ agg_call' = Some([c EXCEPT
                            !.err = response_data.raised,
                            !.how[c.i] = "raised",
                            !.pc = "raised"])
                    /\ UNCHANGED <<cache_files, stored>>
               ELSE IF response_data.data = None
               THEN /\ agg_call' = Some([c EXCEPT
                            !.how[c.i] = "failed",
                            !.i = @ + 1])
                    /\ UNCHANGED <<cache_files, stored>>
               ELSE /\ cache_files' =
                            CacheResponseData(cache_files, c.which_api, symbol,
                                              response_data.data[1], clock)
                    /\ stored' = [stored EXCEPT ![<<c.which_api, symbol>>] =
                            Some([data |-> response_data.data[1],
                                  at |-> clock])]
                    /\ agg_call' = Some([c EXCEPT
                            !.instruments =
                                (symbol :> response_data.data[1]) @@ @,
                            !.how[c.i] = "fetched",
                            !.i = @ + 1])
    /\ UNCHANGED <<clock, cache_threshold_period, cache_call>>
    /\ UNCHANGED <<renkoVars, portfolioVars, dirVars>>

\* line 74: return instruments
ReturnAggregatedData ==
    /\ agg_call # None
    /\ agg_call[1].pc = "loop"
    /\ agg_call[1].i > Len(agg_call[1].instrument_symbols)
    /\ agg_call' = Some([agg_call[1] EXCEPT !.pc = "returned"])
    /\ UNCHANGED <<cache_files, clock, cache_threshold_period, stored,
                   cache_call>>
    /\ UNCHANGED <<renkoVars, portfolioVars, dirVars>>

\* The response cache used directly by its callers
NextCache ==
    \/ Tick
    \/ SetCacheThresholdPeriod
    \/ CallCacheResponseData
    \/ CallRetrieveFromCache

SpecCache == InitCache /\ [][NextCache]_vars

\* The response cache used through the dataframing service
NextAggregate ==
    \/ Tick
    \/ SetCacheThresholdPeriod
    \/ CallRetrieveFromCache
    \/ CallGetAggregatedData
    \/ AggregateFromCache
    \/ AggregateFromApi
    \/ ReturnAggregatedData

SpecAggregate == InitCache /\ [][NextAggregate]_vars

CacheTypeOK ==
    /\ clock \in 0..MaxClock
    /\ cache_threshold_period > 0
    /\ \A path \in ResponseFilePaths :
            cache_files[path] # None => cache_files[path][1].mtime <= clock

\* ------------------------------------------------------------ cache claims
\* What retrieve_from_cache(api, instrument) is to return now: the data last
\* stored for that very pair if it was stored no longer ago than the
\* threshold period, None otherwise
MostRecentlyStored(which_api, which_instrument) ==
    LET last == stored[<<which_api, which_instrument>>]
    IN  IF last # None /\ clock - last[1].at <= cache_threshold_period
        THEN Some(last[1].data)
        ELSE None

\* (C18) retrieve_from_cache(api, instrument) returns the data most recently
\* stored by cache_response_data for that same (api, instrument) pair when
\* it was stored no longer ago than the cache threshold period, and None when
\* nothing was stored for that pair or the stored entry is older.
C18_RetrieveMostRecent ==
    cache_call # None =>
        cache_call[1].result =
            MostRecentlyStored(cache_call[1].which_api,
                               cache_call[1].which_instrument)

\* (C19) _get_aggregated_data_for_multiple_instruments returns a dict of
\* exactly the requested symbols found fresh in the cache or fetched
\* successfully: a failed fetch (HTTP error status, empty or undecodable
\* response) leaves only that symbol out, every requested symbol is
\* processed, and the call returns (an empty dict when every fetch fails).
C19_PartialAggregation ==
    (agg_call # None /\ agg_call[1].pc # "loop") =>
        LET c == agg_call[1] IN
        /\ c.pc = "returned"
        /\ c.err = ""
        /\ \A k \in 1..Len(c.instrument_symbols) :
                c.how[k] \in {"cached", "fetched", "failed"}
        /\ DOMAIN c.instruments =
                {c.instrument_symbols[k] :
                    k \in {j \in 1..Len(c.instrument_symbols) :
                              c.how[j] \in {"cached", "fetched"}}}

\* ------------------------------------------------- the four emitting branches
\* A step of the loop of get_renko: candle idx + 1 is processed
LoopStep == pc = "loop" /\ pc' = "loop"

\* The candle a loop step processes and its signed brick count
CurrCandle == candles[idx + 1]
SignedNumOfBricks ==
    CalculateSignedNumOfBricks(CurrCandle.close, Last(renko_df).close)

\* The rows a step appends to renko_df (the step keeps the earlier rows)
NextBricksAppended ==
    SubSeq(renko_df', Len(renko_df) + 1, Len(renko_df'))

\* A step appends exactly n rows after the unchanged earlier rows
AppendsExactly(n) ==
    /\ Len(renko_df') = Len(renko_df) + n
    /\ IsPrefix(renko_df, renko_df')

\* On a loop step continuing an uptrend the i-th appended brick is
\* (L + (i-1)b -> L + ib), high at its close and low clamped between
\* O + (i-2)b and L + (i-1)b.
ContinueUptrendStep ==
    (LoopStep /\ Last(renko_df).uptrend /\ SignedNumOfBricks >= 1) =>
        LET O == Last(renko_df).open
            L == Last(renko_df).close
            b == brick_size
            n == SignedNumOfBricks
        IN  /\ AppendsExactly(n)
            /\ \A i \in 1..n :
                LET brick == NextBricksAppended[i] IN
                /\ brick.uptrend
                /\ brick.open = L + (i - 1) * b
                /\ brick.close = L + i * b
                /\ brick.high = brick.close
                /\ brick.low = Min(Max(CurrCandle.low, O + (i - 2) * b),
                                   L + (i - 1) * b)

\* (C21) Continue uptrend: when the last brick is an uptrend brick with open
\* O and close L and the candle's signed brick count is n >= 1, exactly n
\* uptrend bricks are appended, the i-th with open L + (i-1)b, close L + ib,
\* high = close and low = min(max(candle.low, O + (i-2)b), L + (i-1)b); with
\* L = 100, b = 10 and candle close 125 the count is 2 and the bricks are
\* 100 -> 110 and 110 -> 120.
C21_ContinueUptrend ==
    /\ [][ContinueUptrendStep]_vars
    /\ [](/\ TruncDiv(125 - 100, 10) = 2
          /\ <<100 + 1 * 10, 100 + 2 * 10>> = <<110, 120>>)

\* A candle has appended two bricks or more to an uptrend, its low lying
\* under the first one's open and above the bound of the clamp: the lows of
\* the batch differ from brick to brick.
C21_Witness ==
    /\ pc \in {"loop", "done"}
    /\ brick_size > 0
    /\ \E k \in 2..idx :
        /\ Cardinality(BricksOf(k)) >= 2
        /\ renko_df[NumBefore(k)].uptrend
        /\ renko_df[NumBefore(k) + 1].uptrend
        /\ renko_df[NumBefore(k) + 1].low = candles[k].low
        /\ renko_df[NumBefore(k) + 2].low > candles[k].low

\* On a loop step reversing an uptrend the i-th appended brick is
\* (O - (i-1)b -> O - ib), low at its close and high clamped between
\* O - (i-1)b and L + b - (i-1)b.
ReverseToDowntrendStep ==
    (LoopStep /\ Last(renko_df).uptrend /\ SignedNumOfBricks <= -2
        /\ Last(renko_df).close = Last(renko_df).open + brick_size) =>
        LET O == Last(renko_df).open
            L == Last(renko_df).close
            b == brick_size
            n == Abs(SignedNumOfBricks + 1)
        IN  /\ AppendsExactly(n)
            /\ n >= 1
            /\ ~Last(renko_df').uptrend
            /\ \A i \in 1..n :
                LET brick == NextBricksAppended[i] IN
                /\ ~brick.uptrend
                /\ brick.open = O - (i - 1) * b
                /\ brick.close = O - i * b
                /\ brick.low = brick.close
                /\ brick.high = Max(Min(CurrCandle.high, L + b - (i - 1) * b),
                                    O - (i - 1) * b)

\* (C22) Reverse to downtrend: when the last brick is an uptrend brick with
\* open O and close L = O + b and the candle's signed brick count is n <= -2,
\* exactly |n + 1| downtrend bricks are appended and the trend becomes down,
\* the i-th with open O - (i-1)b, close O - ib, low = close and high =
\* max(min(candle.high, L + b - (i-1)b), O - (i-1)b); with L = 120, b = 10
\* and candle close 95 the count is -2 and the one brick is 110 -> 100.
C22_ReverseToDowntrend ==
    /\ [][ReverseToDowntrendStep]_vars
    /\ [](/\ TruncDiv(95 - 120, 10) = -2
          /\ Abs(-2 + 1) = 1
          /\ <<120 - 10, 120 - 10 - 1 * 10>> = <<110, 100>>)

\* A candle has reversed an uptrend with two bricks or more, its high lying
\* inside the first brick's clamp range and above the second brick's.
C22_Witness ==
    /\ pc \in {"loop", "done"}
    /\ brick_size > 0
    /\ \E k \in 2..idx :
        /\ Cardinality(BricksOf(k)) >= 2
        /\ renko_df[NumBefore(k)].uptrend
        /\ ~renko_df[NumBefore(k) + 1].uptrend
        /\ renko_df[NumBefore(k) + 1].high = candles[k].high
        /\ renko_df[NumBefore(k) + 1].high > renko_df[NumBefore(k) + 1].open
        /\ renko_df[NumBefore(k) + 2].high < candles[k].high

\* On a loop step continuing a downtrend the i-th appended brick is
\* (L - (i-1)b -> L - ib), low at its close and high clamped between
\* L - (i-1)b and O + b - (i-1)b.
ContinueDowntrendStep ==
    (LoopStep /\ ~Last(renko_df).uptrend /\ SignedNumOfBricks <= -1
        /\ Last(renko_df).close = Last(renko_df).open - brick_size) =>
        LET O == Last(renko_df).open
            L == Last(renko_df).close
            b == brick_size
            n == Abs(SignedNumOfBricks)
        IN  /\ AppendsExactly(n)
            /\ \A i \in 1..n :
                LET brick == NextBricksAppended[i] IN
                /\ ~brick.uptrend
                /\ brick.open = L - (i - 1) * b
                /\ brick.close = L - i * b
                /\ brick.low = brick.close
                /\ brick.high = Max(Min(CurrCandle.high, O + b - (i - 1) * b),
                                    L - (i - 1) * b)

\* (C23) Continue downtrend: when the last brick is a downtrend brick with
\* open O and close L = O - b and the candle's signed brick count is n <= -1,
\* exactly |n| downtrend bricks are appended, the i-th with open L - (i-1)b,
\* close L - ib, low = close and high = max(min(candle.high,
\* O + b - (i-1)b), L - (i-1)b).
C23_ContinueDowntrend == [][ContinueDowntrendStep]_vars

\* A candle has appended a brick to a downtrend, its high lying above the
\* upper bound of the clamp, two brick sizes above the brick's open.
C23_Witness ==
    /\ pc \in {"loop", "done"}
    /\ brick_size > 0
    /\ \E k \in 2..idx :
        /\ Cardinality(BricksOf(k)) >= 1
        /\ ~renko_df[NumBefore(k)].uptrend
        /\ ~renko_df[NumBefore(k) + 1].uptrend
        /\ candles[k].high > renko_df[NumBefore(k) + 1].high
        /\ renko_df[NumBefore(k) + 1].high
                = renko_df[NumBefore(k) + 1].open + 2 * brick_size

\* On a loop step reversing a downtrend the i-th appended brick is
\* (O + (i-1)b -> O + ib), high at its close and low clamped between
\* L - b + (i-1)b and O + (i-1)b.
ReverseToUptrendStep ==
    (LoopStep /\ ~Last(renko_df).uptrend /\ SignedNumOfBricks >= 2
        /\ Last(renko_df).close = Last(renko_df).open - brick_size) =>
        LET O == Last(renko_df).open
            L == Last(renko_df).close
            b == brick_size
            n == Abs(SignedNumOfBricks - 1)
        IN  /\ AppendsExactly(n)
            /\ n >= 1
            /\ Last(renko_df').uptrend
            /\ \A i \in 1..n :
                LET brick == NextBricksAppended[i] IN
                /\ brick.uptrend
                /\ brick.open = O + (i - 1) * b
                /\ brick.close = O + i * b
                /\ brick.high = brick.close
                /\ brick.low = Min(Max(CurrCandle.low, L - b + (i - 1) * b),
                                   O + (i - 1) * b)

\* (C24) Reverse to uptrend: when the last brick is a downtrend brick with
\* open O and close L = O - b and the candle's signed brick count is n >= 2,
\* exactly |n - 1| uptrend bricks are appended and the trend becomes up, the
\* i-th with open O + (i-1)b, close O + ib, high = close and low =
\* min(max(candle.low, L - b + (i-1)b), O + (i-1)b).
C24_ReverseToUptrend == [][ReverseToUptrendStep]_vars

\* A candle has reversed a downtrend, its low lying under the lower bound of
\* the first brick's clamp, two brick sizes under the brick's open.
C24_Witness ==
    /\ pc \in {"loop", "done"}
    /\ brick_size > 0
    /\ \E k \in 2..idx :
        /\ Cardinality(BricksOf(k)) >= 1
        /\ ~renko_df[NumBefore(k)].uptrend
        /\ renko_df[NumBefore(k) + 1].uptrend
        /\ candles[k].low < renko_df[NumBefore(k) + 1].low
        /\ renko_df[NumBefore(k) + 1].low
                = renko_df[NumBefore(k) + 1].open - 2 * brick_size

\* ------------------------------------------------------------- no movement
\* The signed brick count lies in the dead band of the trend
InDeadBand(uptrend, n) ==
    \/ uptrend /\ n \in {0, -1}
    \/ ~uptrend /\ n \in {0, 1}

\* A loop step whose candle's count lies in the dead band changes nothing
\* but the position in the candle sequence.
NoMovementStep ==
    (LoopStep /\ InDeadBand(Last(renko_df).uptrend, SignedNumOfBricks)) =>
        /\ renko_df' = renko_df
        /\ Last(renko_df').open = Last(renko_df).open
        /\ Last(renko_df').close = Last(renko_df).close
        /\ Last(renko_df').uptrend = Last(renko_df).uptrend
        /\ UNCHANGED <<brick_size, candles, results, source>>

\* (C25) No movement: a candle whose signed brick count is 0 or -1 while the
\* trend is up, or 0 or +1 while the trend is down, appends no brick and
\* leaves the last brick's open, close and trend and the whole brick sequence
\* unchanged.
C25_NoMovement == [][NoMovementStep]_vars

\* In a finished run a candle closing a brick size or more above the last
\* close of a downtrend has appended nothing: the returned series ends with
\* the downtrend brick of the candle before it.
C25_Witness ==
    /\ pc = "done"
    /\ brick_size > 0
    /\ idx = 3
    /\ BricksOf(3) = {}
    /\ ~Last(renko_df).uptrend
    /\ Last(renko_df).datetime = 2
    /\ candles[3].close >= Last(renko_df).close + brick_size

\* ---------------------------------------------------------------- timestamps
\* The seeding step stamps the seed with the first candle's timestamp; a loop
\* step stamps every brick it appends with its candle's timestamp.
BricksCarryCandleTimestamp ==
    /\ (pc = "seed_date" /\ pc' = "loop_fetch") =>
            renko_df'[1].datetime = source[1][1].datetime
    /\ LoopStep =>
            /\ IsPrefix(renko_df, renko_df')
            /\ \A i \in 1..Len(NextBricksAppended) :
                    NextBricksAppended[i].datetime = CurrCandle.datetime

\* (C26) Every brick appended while a candle is processed carries exactly
\* that candle's timestamp (all bricks of a multi-brick batch share it), and
\* the seed brick carries the first candle's timestamp.
C26_CandleTimestamp == [][BricksCarryCandleTimestamp]_vars

\* A returned series where the third candle appended a batch of two bricks
\* or more to a downtrend, after the second candle's bricks and the seed.
C26_Witness ==
    /\ pc = "done"
    /\ idx = 3
    /\ renko_df[1].datetime = candles[1].datetime
    /\ BricksOf(2) # {}
    /\ Cardinality(BricksOf(3)) >= 2
    /\ \A i \in BricksOf(3) : ~renko_df[i].uptrend /\ ~renko_df[i - 1].uptrend

\* ------------------------------------------------ the first candle in the loop
\* The loop starts at the first candle of the sequence the seed was built
\* from, and with a positive brick size that first step appends nothing.
FirstCandleStep ==
    /\ (pc = "loop_fetch" /\ pc' = "loop") =>
            /\ idx' = 0
            /\ candles' = source[1]
    /\ (LoopStep /\ idx = 0) =>
            /\ CurrCandle = source[1][1]
            /\ brick_size > 0 => renko_df' = renko_df

\* With a positive brick size the returned series is the one obtained by
\* seeding from the first candle and looping over the candles after it.
SameAsLoopFromSecond ==
    (pc = "done" /\ brick_size > 0) =>
        Last(results) =
            LoopOver(<<InitialUptrendRenkoBrick(candles)>>, candles, 2)

\* (C27) The loop of get_renko starts at the first candle, the one the seed
\* brick was built from, so the first candle is also processed against the
\* seed brick; for every positive brick size this step appends no brick, so
\* the produced series equals the series obtained by seeding from the first
\* candle and processing only the candles after it.
C27_FirstCandleNoBrick == [][FirstCandleStep]_vars /\ []SameAsLoopFromSecond

\* A returned series, brick size above 1, whose first candle closes off the
\* brick grid, above the seed's close, and where only later candles have
\* appended bricks.
C27_Witness ==
    /\ pc = "done"
    /\ brick_size > 1
    /\ Len(candles) >= 2
    /\ candles[1].close > renko_df[1].close
    /\ Len(renko_df) >= 2
    /\ \A i \in 2..Len(renko_df) : renko_df[i].datetime >= 2

\* ------------------------------------------------------- unrepresented move
\* After a loop step the candle's close lies within the band of the trend
\* around the last brick close, and within one brick size of it if the step
\* appended a brick.
CloseWithinBand ==
    LoopStep =>
        LET c == CurrCandle.close
            L == Last(renko_df').close
            b == brick_size
        IN  /\ Last(renko_df').uptrend => (-2 * b < c - L /\ c - L < b)
            /\ ~Last(renko_df').uptrend => (-b < c - L /\ c - L < 2 * b)
            /\ Len(renko_df') > Len(renko_df) => Abs(c - L) < b

\* (C28) After each candle has been processed, the distance from that
\* candle's close c to the last brick close L is bounded by the trend:
\* -2b < c - L < b while the trend is up and -b < c - L < 2b while it is
\* down (b the brick size); and when the candle appended at least one brick,
\* |c - L| < b.
C28_CloseWithinBand == [][CloseWithinBand]_vars

\* ================================================ the response cache directory
\* What a path can be on disk: nothing, a directory the process may read,
\* write and enter, a regular file, or a directory it may not access
PathKinds == {"absent", "dir", "file", "no_access"}

\* The default directory exists; the other path is anything
InitCacheDir ==
    /\ RenkoUnused
    /\ PortfolioUnused
    /\ cache_files = [path \in ResponseFilePaths |-> None]
    /\ clock = 0
    /\ cache_threshold_period = DEFAULT_CACHE_THRESHOLD_PERIOD_DAYS
    /\ stored = [pair \in Apis \X Symbols |-> None]
    /\ cache_call = None
    /\ agg_call = None
    /\ response_cache_dir = DEFAULT_RESPONSE_CACHE_DIR
    /\ fs \in {f \in [Dirs -> PathKinds] : f[DEFAULT_RESPONSE_CACHE_DIR] = "dir"}
    /\ dir_call = None

\* ResponseCacher.set_response_cache_dir, lines 41-57: an existing path is
\* checked (ValueError, PermissionError) and the method returns; a path that
\* does not exist is created and becomes the cache directory
SetResponseCacheDir ==
    \E d \in Dirs :
        /\ IF fs[d] # "absent"
           THEN /\ dir_call' = Some([response_cache_dir |-> d,
                                     existed |-> TRUE,
                                     raised |-> CASE fs[d] = "file" -> "ValueError"
                                                  [] fs[d] = "no_access" -> "PermissionError"
                                                  [] OTHER -> ""])
                /\ UNCHANGED <<response_cache_dir, fs>>
           ELSE /\ fs' = [fs EXCEPT ![d] = "dir"]
                /\ response_cache_dir' = d
                /\ dir_call' = Some([response_cache_dir |-> d,
                                     existed |-> FALSE,
                                     raised |-> ""])
        /\ cache_call' = None
        /\ UNCHANGED <<cache_files, clock, cache_threshold_period, stored,
                       agg_call>>
        /\ UNCHANGED <<renkoVars, portfolioVars>>

\* ResponseCacher.reset_response_cache_dir, lines 73-79
ResetResponseCacheDir ==
    /\ response_cache_dir' = DEFAULT_RESPONSE_CACHE_DIR
    /\ dir_call' = None
    /\ cache_call' = None
    /\ UNCHANGED <<cache_files, clock, cache_threshold_period, stored,
                   agg_call, fs>>
    /\ UNCHANGED <<renkoVars, portfolioVars>>

\* The response cache with its directory set and reset by the caller
NextCacheDir ==
    \/ SetResponseCacheDir
    \/ ResetResponseCacheDir
    \/ CallCacheResponseData
    \/ CallRetrieveFromCache

SpecCacheDir == InitCacheDir /\ [][NextCacheDir]_vars

\* ResponseCacher.get_response_cache_dir, lines 28-29
GetResponseCacheDir == response_cache_dir

\* The last set_response_cache_dir call returned without raising and the
\* directory has not been reset since
SetCacheDirReturned ==
    IF dir_call = None THEN FALSE ELSE dir_call[1].raised = ""

\* What retrieve_from_cache finds for (api, instrument) under directory d
FreshIn(d, which_api, which_instrument) ==
    LET f == cache_files[ResponseFilePathIn(d, which_api, which_instrument)]
    IN  IF f = None THEN None
        ELSE IF clock - f[1].mtime <= cache_threshold_period
        THEN Some(f[1].data)
        ELSE None

\* Cache calls made after set_response_cache_dir(d) returned write files
\* under d only and read the file under d
CacheCallsUseSetDir ==
    (SetCacheDirReturned /\ dir_call' = dir_call) =>
        LET d == dir_call[1].response_cache_dir IN
        /\ \A path \in ResponseFilePaths :
                cache_files'[path] # cache_files[path] => path[1] = d
        /\ (cache_call' # None /\ cache_files' = cache_files) =>
                cache_call'[1].result =
                    FreshIn(d, cache_call'[1].which_api,
                            cache_call'[1].which_instrument)

\* (C29) After ResponseCacher.set_response_cache_dir(d) returns without
\* raising, get_response_cache_dir() returns d and later cache reads and
\* writes use d, whether or not directory d already existed before the call.
C29_SetCacheDirTakesEffect ==
    /\ [](SetCacheDirReturned =>
            GetResponseCacheDir = dir_call[1].response_cache_dir)
    /\ [][CacheCallsUseSetDir]_vars

\* ------------------------------------------------ fetched once, then cached
\* The aggregation has fetched (api, symbol) successfully and that was no
\* longer ago than the cache threshold period
FetchedWithinThreshold(which_api, symbol) ==
    LET last == stored[<<which_api, symbol>>]
    IN  IF last = None THEN FALSE
        ELSE clock - last[1].at <= cache_threshold_period

\* An iteration of the aggregation loop is taken for the symbol at position i
LoopIteration ==
    IF agg_call = None \/ agg_call' = None THEN FALSE
    ELSE /\ agg_call[1].pc = "loop"
         /\ agg_call[1].i <= Len(agg_call[1].instrument_symbols)

\* An iteration for a symbol fetched within the threshold period takes the
\* symbol's data from the cache: no API call is made (no response is
\* validated, nothing is written to the cache) and the symbol is in the dict.
AnsweredFromCache ==
    LoopIteration =>
        LET c == agg_call[1]
            symbol == c.instrument_symbols[c.i]
        IN  FetchedWithinThreshold(c.which_api, symbol) =>
                /\ agg_call'[1].how[c.i] = "cached"
                /\ agg_call'[1].pc = "loop"
                /\ agg_call'[1].i = c.i + 1
                /\ symbol \in DOMAIN agg_call'[1].instruments
                /\ UNCHANGED <<cache_files, stored>>

\* (C30) Once _get_aggregated_data_for_multiple_instruments has fetched a
\* symbol's data from the API successfully, every later request for the same
\* symbol and candle span made within the cache threshold period (cache
\* directory and threshold unchanged) is answered from the cache and makes
\* no API call for that symbol.
C30_FetchedThenCached == [][AnsweredFromCache]_vars

\* A later aggregation call, made exactly one threshold period after the
\* fetch with a threshold of one day, has answered the symbol from the cache.
C30_Witness ==
    /\ agg_call # None
    /\ cache_threshold_period = 1
    /\ agg_call[1].pc = "returned"
    /\ \E k \in 1..Len(agg_call[1].instrument_symbols) :
        LET last == stored[<<agg_call[1].which_api,
                             agg_call[1].instrument_symbols[k]>>]
        IN  /\ agg_call[1].how[k] = "cached"
            /\ last # None
            /\ last[1].at = clock - 1

====
